---- MODULE Spec2Model ----
(***************************************************************************)
(* Status-event pipeline of fin-advisor:                                   *)
(*   - StatusLoggerTool (financial_advisor/tools/__init__.py): the client  *)
(*     dispatcher, HTTP first with fallback to a direct insert;            *)
(*   - DatabaseManager (mcp_server/db_operations.py) behind the FastAPI    *)
(*     handlers of mcp_server/http_server.py: candidate resolution, pool   *)
(*     establishment, insert and query.                                    *)
(* Every await of the Python code is a point where another coroutine may   *)
(* run, so each action below is one stretch of code between two awaits.    *)
(* The outcome of every network call is chosen by the environment.         *)
(***************************************************************************)
EXTENDS Integers, Sequences, FiniteSets, TLC

\* ------------------------------------------------------------------ bounds
MaxCalls == 2
MaxReqs == 2
MaxInserts == 2
\* requests the handlers of a server are followed through (at most MaxReqs)
MaxHandlers == 1
\* connections in a pool: max_size of create_pool, scaled down so that callers wait
PoolMaxSize == 1
\* close() calls made in a row on one object
MaxCloses == 2

Calls == 1..MaxCalls
Reqs == 1..MaxReqs
Slots == 1..MaxInserts

\* ------------------------------------------------------- values of the code
\* Python None for a string-valued variable or argument.
NoneStr == "None"

\* Python truthiness of an Optional[str]: None and "" are falsy.
TruthyStr(s) == s # NoneStr /\ s # ""

\* Optional[Dict]: None, or a mapping given by the set of its keys.
NoneMeta == [kind |-> "None", keys |-> {}]
EmptyMeta == [kind |-> "dict", keys |-> {}]
SomeMeta == [kind |-> "dict", keys |-> {"key"}]
Metas == {NoneMeta, EmptyMeta, SomeMeta}

\* Python truthiness of an Optional[Dict]: None and {} are falsy.
TruthyMeta(m) == m.kind = "dict" /\ m.keys # {}

\* json.dumps(metadata): the mapping serialized to text.
JsonDumps(m) == [kind |-> "str", keys |-> m.keys]

\* The sixth INSERT parameter: json.dumps(metadata) if metadata else None.
MetadataParam(m) == IF TruthyMeta(m) THEN JsonDumps(m) ELSE NoneMeta

\* json.loads of a stored blob (SQL NULL reads back as None).
JsonLoads(b) == IF b.kind = "str" THEN [kind |-> "dict", keys |-> b.keys] ELSE NoneMeta

VARIABLES
    \* ---- the table agent_status_logs and the database clock
    rows,            \* stored rows, in insertion order
    next_id,         \* next value of the SERIAL sequence of column id
    clock,           \* CURRENT_TIMESTAMP of the database
    \* ---- StatusLoggerTool (client dispatcher)
    use_http_server, \* self._use_http_server
    mcp_server_url,  \* self._mcp_server_url
    tool_pool,       \* self._pool: 0 is None, otherwise the pool's number
    tool_pools,      \* numbers of the pools asyncpg.create_pool has returned to the tool
    http_client,     \* self._http_client is not None
    run_pc,          \* position of each run() call
    run_meta,        \* the metadata argument of each run() call
    run_hdr,         \* headers of the POST of each run() call
    run_resp,        \* the response the POST of each run() call received
    remote_stored,   \* the service inserted the event of the POST of each run() call
    run_ret,         \* the string each run() call returned
    run_http_err,    \* the exception _log_via_http raised in each run() call
    run_db_err,      \* the exception _log_via_database raised in each run() call
    http_calls,      \* calls of _log_via_http made by each run() call
    db_calls,        \* calls of _log_via_database made by each run() call
    logged,          \* messages each run() call gave to logger.error / logger.warning
    \* ---- callers of DatabaseManager.log_status / get_recent_logs
    ins_pc,          \* position of each log_status call
    ins_before,      \* the log_status calls that had returned when each one started
    ins_ret,         \* the id each log_status call returned (0: none yet)
    query,           \* the get_recent_logs call that has just returned or raised
    \* ---- the HTTP service: db_manager and the coroutines that use it
    env,             \* the configuration environment of the service process
    surface,         \* the server that runs: "http" (http_server.py) or "stdio" (server.py)
    pool,            \* db_manager.pool: 0 is None, otherwise the pool's number
    pools_made,      \* the pools asyncpg.create_pool has returned to connect()
    probe_left_open, \* connect() has opened a test connection and not closed it
    phase,           \* "startup", "serving" or "stopped"
    pc,              \* position of startup_event (0) and of each request handler
    cidx,            \* index in urls_to_try of the url a connect() call is trying
    last_error,      \* last_error of each connect() call
    raised,          \* the exception each connect() call raised
    resp,            \* the status code each request was answered with (0: not yet)
    \* ---- the connections of one established pool and the operations that borrow them
    idle_conns,      \* connections of the pool that no operation holds
    b_pc,            \* position of each operation in its `async with pool.acquire()`
    b_kind,          \* the operation: log_status, get_recent_logs or health_check
    b_out,           \* how the operation ended: returned, raised or cancelled
    \* ---- the database's schema and the create_tables calls
    catalog,         \* committed relations: how many of each name exist
    ct_pc,           \* position of each create_tables call
    ct_new,          \* relations each call's open transaction has created
    ct_out,          \* how each create_tables call ended: returned or raised
    \* ---- the requests at the service surface
    f_req,           \* the request each handler was called with
    f_store,         \* each handler's calls of the log store: how many, the limit, the outcome
    f_result,        \* the answer each handler gave
    \* ---- the close() calls on db_manager and on the StatusLoggerTool
    tool_closed,     \* the tool's pools that have been closed
    closes           \* per object, what each close() call found and how it ended

dvars == <<use_http_server, mcp_server_url, tool_pool, tool_pools, http_client,
           run_pc, run_meta, run_hdr, run_resp, remote_stored, run_ret, run_http_err,
           run_db_err, http_calls, db_calls, logged>>
tvars == <<rows, next_id, clock>>
lvars == <<ins_pc, ins_before, ins_ret, query>>
svars == <<env, surface, pool, pools_made, probe_left_open, phase, pc, cidx,
           last_error, raised, resp>>
bvars == <<idle_conns, b_pc, b_kind, b_out>>
cvars == <<catalog, ct_pc, ct_new, ct_out>>
fvars == <<f_req, f_store, f_result>>
xvars == <<tool_closed, closes>>

\* ------------------------------------------------------------- the table
\* INSERT INTO agent_status_logs (...) VALUES ($1..$6) RETURNING id:
\* id comes from the SERIAL sequence, timestamp from DEFAULT CURRENT_TIMESTAMP.
\* `by` is not a column: it records which call issued the statement.
InsertedRow(id, ts, session_id, user_id, agent_name, status_type, message, metadata, by) ==
    [id |-> id, timestamp |-> ts, session_id |-> session_id, user_id |-> user_id,
     agent_name |-> agent_name, status_type |-> status_type, message |-> message,
     metadata |-> metadata, by |-> by]

\* ------------------------------------------------- StatusLoggerTool strings
\* An f-string with one interpolated value is kept as its fixed text and the value.
NoRet == [text |-> "", id |-> 0, err |-> ""]

\* f"Status logged successfully via HTTP with ID: {log_id}"
HttpSuccessText(log_id) ==
    [text |-> "Status logged successfully via HTTP with ID: ", id |-> log_id, err |-> ""]

\* f"Status logged successfully with ID: {result}"
DbSuccessText(result) ==
    [text |-> "Status logged successfully with ID: ", id |-> result, err |-> ""]

\* f"Error logging status: {str(e)}"
ErrorText_NoReason(e) == [text |-> "Error logging status: ", id |-> 0, err |-> ""]
ErrorText(e) == [text |-> "Error logging status: ", id |-> 0, err |-> e]

DEFAULT_SESSION_ID == "default_session"
DEFAULT_USER_ID == "default_user"
AgentName == "test_agent"
StatusType == "info"
Message == "Test status message"

\* Outcomes of the POST the environment can produce: the call raises, or a
\* response arrives with a status code and a body.
PostRaises == "httpx.TransportError"
HttpStatuses == {200, 201, 500}
HttpStatusError(code) ==
    IF code = 201 THEN "HTTP request failed with status 201"
    ELSE "HTTP request failed with status 500"
JsonDecodeError == "json.JSONDecodeError"
CreatePoolError == "asyncpg.create_pool failed"
AcquireError == "pool.acquire failed"
InsertError == "INSERT failed"
HttpErrors == {PostRaises, JsonDecodeError} \cup {HttpStatusError(s) : s \in HttpStatuses \ {200}}
DbErrors == {CreatePoolError, AcquireError, InsertError}
\* log_id values a 200 response can carry (0: the body has no log_id).
RemoteLogIds == {0, 7}

\* The response of the POST as _log_via_http reads it: the status code and,
\* when the code is 200 and the body is JSON, result.get("log_id").
NoResponse == [status |-> 0, log_id |-> 0]
Response(status, body_is_json, log_id) ==
    [status |-> status, log_id |-> IF status = 200 /\ body_is_json THEN log_id ELSE 0]

\* _log_via_http, line 122: if response.status_code == 200
HttpOk_Any(status) == TRUE
HttpOk(status) == status = 200

\* ---------------------------------------------------------------- the table
\* conn.fetchval(INSERT ... RETURNING id) on success: the row is stored with the
\* next id of the sequence and the database's current time.
StoreInsert(session_id, user_id, agent_name, status_type, message, metadata, by) ==
    /\ rows' = Append(rows, InsertedRow(next_id, clock, session_id, user_id, agent_name,
                                        status_type, message, metadata, by))
    /\ next_id' = next_id + 1

\* A failed INSERT stores nothing; the sequence value it drew, if any, is not given back.
StoreInsertFails ==
    /\ rows' = rows
    /\ next_id' \in {next_id, next_id + 1}

\* fetchval returns the first column of the RETURNING clause: the new row's id.
FetchvalReturningId_NoReturning(row) == 0
FetchvalReturningId(row) == row.id

\* ------------------------------------------------------- StatusLoggerTool.run
\* run, line 182: if self._use_http_server and self._mcp_server_url
UsesHttp_FlagOnly == use_http_server
UsesHttp == use_http_server /\ TruthyStr(mcp_server_url)

\* run, lines 185-195: the fallback runs inside the except block of the HTTP
\* attempt; an exception of the fallback replaces the HTTP one and is the `e`
\* of the outer except block.
FallbackError_Original(http_e, db_e) == IF http_e # "" THEN http_e ELSE db_e
FallbackError(http_e, db_e) == db_e

\* run returned: its argument and the locals of _log_via_http are gone.
RunReturns(c) ==
    /\ run_pc' = [run_pc EXCEPT ![c] = "done"]
    /\ run_meta' = [run_meta EXCEPT ![c] = NoneMeta]
    /\ run_hdr' = [run_hdr EXCEPT ![c] = "none"]

\* _log_via_database up to its first await: _ensure_db_connection awaits
\* create_pool when self._pool is None, otherwise the pool is acquired.
LogViaDatabaseStart(c) ==
    /\ db_calls' = [db_calls EXCEPT ![c] = @ + 1]
    /\ run_pc' = [run_pc EXCEPT ![c] = IF tool_pool = 0 THEN "create_pool" ELSE "insert"]

\* _log_via_database raised e: logged at lines 63/169, caught at run line 193.
DbFailed(c, e) ==
    /\ run_db_err' = [run_db_err EXCEPT ![c] = e]
    /\ logged' = [logged EXCEPT ![c] = @ \cup {e}]
    /\ run_ret' = [run_ret EXCEPT ![c] = ErrorText(FallbackError(run_http_err[c], e))]
    /\ RunReturns(c)

\* _log_via_http raised e: logged at lines 129/133 and 186, then the fallback starts.
HttpFailed(c, e) ==
    /\ run_http_err' = [run_http_err EXCEPT ![c] = e]
    /\ logged' = [logged EXCEPT ![c] = @ \cup {e}]
    /\ LogViaDatabaseStart(c)
    /\ run_hdr' = [run_hdr EXCEPT ![c] = "none"]
    /\ UNCHANGED <<run_meta, run_ret, tool_pool, tool_pools, tvars>>

\* run() is called; it runs to its first await: the POST, create_pool or acquire.
RunStart(c) ==
    /\ run_pc[c] = "idle"
    /\ \E metadata \in Metas : run_meta' = [run_meta EXCEPT ![c] = metadata]
    /\ IF UsesHttp
       THEN \* _log_via_http: _ensure_http_client, _get_auth_token, post
            /\ http_calls' = [http_calls EXCEPT ![c] = @ + 1]
            /\ http_client' = TRUE
            /\ \E auth_token \in {NoneStr, "token"} :
                 run_hdr' = [run_hdr EXCEPT ![c] =
                                IF TruthyStr(auth_token) THEN "Authorization" ELSE "none"]
            /\ run_pc' = [run_pc EXCEPT ![c] = "post"]
            /\ UNCHANGED db_calls
       ELSE /\ LogViaDatabaseStart(c)
            /\ UNCHANGED <<http_calls, http_client, run_hdr>>
    /\ UNCHANGED <<use_http_server, mcp_server_url, tool_pool, tool_pools, run_ret,
                   run_resp, remote_stored, run_http_err, run_db_err, logged, tvars>>

\* The POST raised a transport error (lines 116-120, 132-134): the request did
\* not reach the service, or the response was lost or did not come within the
\* client's timeout of 30 s (line 69); in the last two cases the service may
\* have inserted the event (http_server.py line 170).
PostRaised(c) ==
    /\ run_pc[c] = "post"
    /\ HttpFailed(c, PostRaises)
    /\ \E committed \in BOOLEAN : remote_stored' = [remote_stored EXCEPT ![c] = committed]
    /\ UNCHANGED <<use_http_server, mcp_server_url, http_client, http_calls, run_db_err,
                   run_resp>>

\* A response arrived (lines 122-130): status 200 with a JSON body, status 200
\* whose body response.json() cannot decode, or another status code.
PostAnswered(c) ==
    /\ run_pc[c] = "post"
    /\ \E status \in HttpStatuses, body_is_json \in BOOLEAN, log_id \in RemoteLogIds :
         /\ run_resp' = [run_resp EXCEPT ![c] = Response(status, body_is_json, log_id)]
         /\ remote_stored' = [remote_stored EXCEPT ![c] = status = 200 /\ body_is_json]
         /\ IF HttpOk(status)
            THEN IF body_is_json
                 THEN /\ run_ret' = [run_ret EXCEPT ![c] = HttpSuccessText(log_id)]
                      /\ RunReturns(c)
                      /\ UNCHANGED <<run_http_err, logged, db_calls, tool_pool, tool_pools,
                                     tvars>>
                 ELSE HttpFailed(c, JsonDecodeError)
            ELSE HttpFailed(c, HttpStatusError(status))
    /\ UNCHANGED <<use_http_server, mcp_server_url, http_client, http_calls, run_db_err>>

\* _ensure_db_connection, lines 55-64: create_pool returned or raised.
CreatePoolDone(c) ==
    /\ run_pc[c] = "create_pool"
    /\ \/ /\ tool_pool' = Cardinality(tool_pools) + 1
          /\ tool_pools' = tool_pools \cup {Cardinality(tool_pools) + 1}
          /\ run_pc' = [run_pc EXCEPT ![c] = "insert"]
          /\ UNCHANGED <<run_meta, run_hdr, run_ret, run_db_err, logged>>
       \/ /\ DbFailed(c, CreatePoolError)
          /\ UNCHANGED <<tool_pool, tool_pools>>
    /\ UNCHANGED <<use_http_server, mcp_server_url, http_client, run_http_err, http_calls,
                   db_calls, run_resp, remote_stored, tvars>>

\* _log_via_database, lines 149-166: acquire and fetchval returned or raised.
InsertDone(c) ==
    /\ run_pc[c] = "insert"
    /\ \/ /\ tool_pool \notin tool_closed
          /\ StoreInsert(DEFAULT_SESSION_ID, DEFAULT_USER_ID, AgentName, StatusType,
                         Message, MetadataParam(run_meta[c]),
                         [call |-> c, metadata |-> run_meta[c]])
          /\ clock' = clock + 1
          /\ run_ret' = [run_ret EXCEPT ![c] =
                            DbSuccessText(FetchvalReturningId(rows'[Len(rows')]))]
          /\ RunReturns(c)
          /\ UNCHANGED <<run_db_err, logged>>
       \/ /\ DbFailed(c, AcquireError)
          /\ UNCHANGED tvars
       \/ /\ DbFailed(c, InsertError)
          /\ StoreInsertFails
          /\ UNCHANGED clock
    /\ UNCHANGED <<use_http_server, mcp_server_url, tool_pool, tool_pools, http_client,
                   run_http_err, http_calls, db_calls, run_resp, remote_stored>>

DispatchInit ==
    /\ use_http_server \in BOOLEAN
    /\ mcp_server_url \in {NoneStr, "", "https://mcp.run.app"}
    /\ tool_pool = 0
    /\ tool_pools = {}
    /\ http_client = FALSE
    /\ run_pc = [c \in Calls |-> "idle"]
    /\ run_meta = [c \in Calls |-> NoneMeta]
    /\ run_hdr = [c \in Calls |-> "none"]
    /\ run_resp = [c \in Calls |-> NoResponse]
    /\ remote_stored = [c \in Calls |-> FALSE]
    /\ run_ret = [c \in Calls |-> NoRet]
    /\ run_http_err = [c \in Calls |-> ""]
    /\ run_db_err = [c \in Calls |-> ""]
    /\ http_calls = [c \in Calls |-> 0]
    /\ db_calls = [c \in Calls |-> 0]
    /\ logged = [c \in Calls |-> {}]

TableInit ==
    /\ rows = <<>>
    /\ next_id = 1
    /\ clock = 0



\* ------------------------------------------------- properties of the dispatcher
Finished(c) == run_pc[c] = "done"
RemoteFailed(c) == run_http_err[c] # ""
DirectFailed(c) == run_db_err[c] # ""
RowsBy(c) == {i \in 1..Len(rows) : rows[i].by.call = c}

\* C1: a dispatch whose remote attempt failed and whose direct insert succeeded
\* returns the direct path's success text with the id the direct insert assigned,
\* and nothing of the remote error.
C1_FallbackReturnsDirectId ==
    \A c \in Calls :
        (Finished(c) /\ http_calls[c] > 0 /\ RemoteFailed(c) /\ RowsBy(c) # {}) =>
            /\ run_ret[c].text = "Status logged successfully with ID: "
            /\ \A i \in RowsBy(c) : run_ret[c].id = rows[i].id
            /\ run_ret[c].err = ""

C1_Witness ==
    \E c \in Calls :
        /\ Finished(c) /\ UsesHttp /\ RemoteFailed(c) /\ RowsBy(c) # {}
        /\ run_ret[c].id > 0

\* C2: per dispatch the remote transport is tried at most once and only when
\* enabled with an endpoint, the direct transport at most once and only when the
\* remote one was not tried or failed, never after a remote success.
C2_AtMostOneAttemptPerTransport ==
    \A c \in Calls :
        /\ http_calls[c] <= 1
        /\ db_calls[c] <= 1
        /\ Cardinality(RowsBy(c)) <= 1
        /\ http_calls[c] = 1 => (use_http_server /\ TruthyStr(mcp_server_url))
        /\ (run_pc[c] # "idle" /\ ~(use_http_server /\ TruthyStr(mcp_server_url))) =>
               (http_calls[c] = 0 /\ db_calls[c] = 1)
        /\ db_calls[c] = 1 => (http_calls[c] = 0 \/ RemoteFailed(c))
        /\ run_ret[c].text = "Status logged successfully via HTTP with ID: " =>
               (db_calls[c] = 0 /\ RowsBy(c) = {})

C2_Witness ==
    \E c \in Calls : Finished(c) /\ http_calls[c] = 1 /\ db_calls[c] = 1

\* C3: when the remote attempt and the direct insert both fail, the caller gets
\* the failure carrying the direct path's error; the remote error is logged only.
C3_BothFailCarriesDirectError ==
    \A c \in Calls :
        (Finished(c) /\ RemoteFailed(c) /\ DirectFailed(c)) =>
            /\ run_ret[c].text = "Error logging status: "
            /\ run_ret[c].err = run_db_err[c]
            /\ run_ret[c].err # run_http_err[c]
            /\ run_ret[c].id = 0
            /\ run_http_err[c] \in logged[c]

C3_Witness ==
    \E c \in Calls :
        /\ Finished(c) /\ RemoteFailed(c) /\ DirectFailed(c)
        /\ run_http_err[c] \in HttpErrors /\ run_db_err[c] \in DbErrors

\* The remote attempt of call c has ended.
RemoteEnded(c) == http_calls[c] = 1 /\ run_pc[c] # "post"
SuccessStatus(status) == status \in 200..299

\* C24: the remote attempt fails whenever the POST raises or the response has a
\* non-success status, and succeeds only on a success status, and then the
\* returned string reports the log_id of the response.  Without a bearer token
\* the request is sent, with no Authorization header, and has not failed.
C24_RemoteAttemptOutcome ==
    \A c \in Calls :
        /\ (RemoteEnded(c) /\ run_resp[c] = NoResponse) =>
               (RemoteFailed(c) /\ run_http_err[c] = PostRaises)
        /\ (RemoteEnded(c) /\ run_resp[c] # NoResponse
               /\ ~SuccessStatus(run_resp[c].status)) =>
               (RemoteFailed(c) /\ run_http_err[c] = HttpStatusError(run_resp[c].status))
        /\ (RemoteEnded(c) /\ ~RemoteFailed(c)) =>
               /\ SuccessStatus(run_resp[c].status)
               /\ run_ret[c] = HttpSuccessText(run_resp[c].log_id)
               /\ db_calls[c] = 0
        /\ run_pc[c] = "post" =>
               /\ run_hdr[c] \in {"none", "Authorization"}
               /\ ~RemoteFailed(c)
               /\ run_ret[c] = NoRet

C24_Witness ==
    \E c, d \in Calls :
        /\ RemoteEnded(c) /\ ~RemoteFailed(c)
        /\ run_resp[c] = Response(200, TRUE, 7)
        /\ run_ret[c].id = 7
        /\ run_pc[d] = "post" /\ run_hdr[d] = "none"

\* C26: one dispatch stores at most one record of its event: never both the
\* service's insert (behind a POST that then failed for the client) and the
\* insert of the direct path.
C26_AtMostOneRecordPerDispatch ==
    \A c \in Calls : ~(remote_stored[c] /\ RowsBy(c) # {})

\* C28: run never raises: every call that ended has returned a string.  When
\* the last transport it tried failed (the direct path, alone or after a remote
\* failure), the string is "Error logging status: " with that transport's error
\* text, and has no success text and no id.
C28_RunReturnsErrorString ==
    \A c \in Calls :
        /\ Finished(c) =>
               run_ret[c].text \in {"Status logged successfully via HTTP with ID: ",
                                    "Status logged successfully with ID: ",
                                    "Error logging status: "}
        /\ ~Finished(c) => run_ret[c] = NoRet
        /\ DirectFailed(c) =>
               /\ Finished(c)
               /\ run_ret[c].text = "Error logging status: "
               /\ run_ret[c].err = run_db_err[c]
               /\ run_ret[c].err \in DbErrors
               /\ run_ret[c].id = 0
        /\ run_ret[c].text = "Error logging status: " => DirectFailed(c)

C28_Witness ==
    \E c \in Calls :
        /\ Finished(c) /\ http_calls[c] = 0 /\ DirectFailed(c)
        /\ run_ret[c] = ErrorText(InsertError)

\* C29: concurrent run() calls that reach the direct path while the tool has no
\* pool create at most one pool: no pool is replaced in self._pool by a second
\* one while it is still open.
C29_OneDirectPool ==
    /\ Cardinality(tool_pools \ tool_closed) <= 1
    /\ tool_pool # 0 => tool_pools \ tool_closed \subseteq {tool_pool}

\* ------------------------------------- DatabaseManager.log_status / get_recent_logs
\* Values the callers pass.  session_id and agent_name are plain str fields of
\* LogStatusRequest, so the empty string is accepted; the filters of query_logs
\* are Optional[str].
UserId == "u1"
Event(session_id, agent_name, metadata) ==
    [session_id |-> session_id, agent_name |-> agent_name, metadata |-> metadata]
Events == {Event("s1", "a1", NoneMeta), Event("s1", "a2", SomeMeta),
           Event("", "a1", SomeMeta), Event("s1", "a1", EmptyMeta)}
SessionFilters == {NoneStr, "", "s1"}
AgentFilters == {NoneStr, "a1"}
Limits == (-1)..MaxInserts

NoQuery == [state |-> "none", limit |-> 0, session_id |-> NoneStr, agent_name |-> NoneStr,
            result |-> <<>>]

\* get_recent_logs, lines 163-177: a filter joins the WHERE clause when its
\* argument is truthy; the conditions are joined with AND.
WhereClause(r, session_id, agent_name) ==
    /\ TruthyStr(session_id) => r.session_id = session_id
    /\ TruthyStr(agent_name) => r.agent_name = agent_name

\* ORDER BY timestamp DESC (line 185): the rows come by non-increasing
\* timestamp; the statement says nothing on the order of rows of one timestamp.
OrderBy_Asc(a, b) == a.timestamp <= b.timestamp
OrderBy(a, b) == a.timestamp >= b.timestamp

\* dict(row) of a selected row: the eight selected columns.
RowDict(r) ==
    [id |-> r.id, timestamp |-> r.timestamp, session_id |-> r.session_id,
     user_id |-> r.user_id, agent_name |-> r.agent_name, status_type |-> r.status_type,
     message |-> r.message, metadata |-> r.metadata]

\* The orders in which the database may deliver the rows at positions idx.
Orderings(tbl, idx) ==
    {f \in [1..Cardinality(idx) -> idx] :
        /\ \A i, j \in 1..Cardinality(idx) : i # j => f[i] # f[j]
        /\ \A i, j \in 1..Cardinality(idx) : i < j => OrderBy(tbl[f[i]], tbl[f[j]])}

\* LIMIT $n (line 186) keeps the first n rows delivered.
LimitRows(seq, limit) == SubSeq(seq, 1, IF limit < Len(seq) THEN limit ELSE Len(seq))

\* The lists get_recent_logs can return (lines 180-191) for limit >= 0.
QueryResults(tbl, limit, session_id, agent_name) ==
    LET idx == {i \in 1..Len(tbl) : WhereClause(tbl[i], session_id, agent_name)}
    IN  {LimitRows([k \in 1..Cardinality(idx) |-> RowDict(tbl[f[k]])], limit) :
            f \in Orderings(tbl, idx)}

\* A caller invokes log_status; it runs to the await of pool.acquire (line 134).
LogStatusCall(s) ==
    /\ ins_pc[s] = "idle"
    /\ query = NoQuery
    /\ ins_pc' = [ins_pc EXCEPT ![s] = "exec"]
    /\ ins_before' = [ins_before EXCEPT ![s] = {t \in Slots : ins_pc[t] = "returned"}]
    /\ UNCHANGED <<ins_ret, query, tvars>>

\* The database executes the INSERT of lines 135-148, or the statement (or the
\* acquire before it) fails and log_status raises (lines 151-153).
LogStatusExec(s) ==
    /\ ins_pc[s] = "exec"
    /\ query = NoQuery
    /\ \/ /\ \E e \in Events :
               StoreInsert(e.session_id, UserId, e.agent_name, StatusType, Message,
                           MetadataParam(e.metadata), [slot |-> s, event |-> e])
          /\ ins_pc' = [ins_pc EXCEPT ![s] = "stored"]
       \/ /\ StoreInsertFails
          /\ ins_pc' = [ins_pc EXCEPT ![s] = "raised"]
    /\ UNCHANGED <<ins_before, ins_ret, query, clock>>

\* fetchval returns to log_status, which returns the id (line 150).  The reply
\* takes longer than the resolution of CURRENT_TIMESTAMP: a statement that starts
\* after this return reads a later time.
LogStatusReturn(s) ==
    /\ ins_pc[s] = "stored"
    /\ query = NoQuery
    /\ \E i \in 1..Len(rows) :
         /\ rows[i].by.slot = s
         /\ ins_ret' = [ins_ret EXCEPT ![s] = FetchvalReturningId(rows[i])]
    /\ ins_pc' = [ins_pc EXCEPT ![s] = "returned"]
    /\ clock' = clock + 1
    /\ UNCHANGED <<ins_before, query, rows, next_id>>

\* get_recent_logs (lines 155-194): one SELECT; PostgreSQL rejects a negative LIMIT.
GetRecentLogs ==
    /\ query = NoQuery
    /\ \E limit \in Limits, session_id \in SessionFilters, agent_name \in AgentFilters :
         \/ /\ limit >= 0
            /\ \E res \in QueryResults(rows, limit, session_id, agent_name) :
                 query' = [state |-> "returned", limit |-> limit, session_id |-> session_id,
                           agent_name |-> agent_name, result |-> res]
         \/ query' = [state |-> "raised", limit |-> limit, session_id |-> session_id,
                      agent_name |-> agent_name, result |-> <<>>]
    /\ UNCHANGED <<ins_pc, ins_before, ins_ret, tvars>>

\* The caller of get_recent_logs has taken the list or the exception.
QueryTaken ==
    /\ query # NoQuery
    /\ query' = NoQuery
    /\ UNCHANGED <<ins_pc, ins_before, ins_ret, tvars>>

StoreIdle ==
    /\ ins_pc = [s \in Slots |-> "idle"]
    /\ ins_before = [s \in Slots |-> {}]
    /\ ins_ret = [s \in Slots |-> 0]
    /\ query = NoQuery


\* ---------------------------------------------------- properties of the log store
Returned == query.state = "returned"
LastRow == rows[Len(rows)]
PosOf(res, id) == CHOOSE k \in 1..Len(res) : res[k].id = id
\* ins_before[b] holds a: call a had returned when call b started.
InsertedBefore(a, b) == rows[a].by.slot \in ins_before[rows[b].by.slot]

\* C7: after a successful insert of event E, a query with limit >= 1 and filters
\* matching E, with no insert in between, returns E first: the six input fields
\* as given, and a non-null id and timestamp.
C7_InsertThenQueryRoundTrip ==
    (/\ Returned
     /\ Len(rows) > 0
     /\ ins_pc[LastRow.by.slot] = "returned"
     /\ query.limit >= 1
     /\ query.session_id \in {NoneStr, LastRow.by.event.session_id}
     /\ query.agent_name \in {NoneStr, LastRow.by.event.agent_name}) =>
        /\ Len(query.result) >= 1
        /\ query.result[1].session_id = LastRow.by.event.session_id
        /\ query.result[1].user_id = UserId
        /\ query.result[1].agent_name = LastRow.by.event.agent_name
        /\ query.result[1].status_type = StatusType
        /\ query.result[1].message = Message
        /\ JsonLoads(query.result[1].metadata) = LastRow.by.event.metadata
        /\ query.result[1].id = ins_ret[LastRow.by.slot]
        /\ query.result[1].id > 0
        /\ query.result[1].timestamp >= 0

\* C8: if insert B started after insert A had returned, every later query without
\* filters whose limit covers all stored rows returns B before A.
C8_LaterInsertFirst ==
    (/\ Returned
     /\ query.session_id = NoneStr
     /\ query.agent_name = NoneStr
     /\ query.limit >= Len(rows)) =>
        \A a, b \in 1..Len(rows) :
            InsertedBefore(a, b) =>
                /\ Len(query.result) = Len(rows)
                /\ PosOf(query.result, rows[b].id) < PosOf(query.result, rows[a].id)

C8_Witness ==
    /\ Returned
    /\ query.session_id = NoneStr /\ query.agent_name = NoneStr
    /\ Len(query.result) = 2
    /\ \E a, b \in 1..Len(rows) :
         /\ InsertedBefore(a, b)
         /\ query.result[1].id = rows[b].id
         /\ query.result[2].id = rows[a].id

\* C9: a query result is ordered by timestamp descending and, among rows of one
\* timestamp, by id descending.
C9_TiesByIdDescending ==
    Returned =>
        \A i, j \in 1..Len(query.result) :
            i < j =>
                \/ query.result[i].timestamp > query.result[j].timestamp
                \/ /\ query.result[i].timestamp = query.result[j].timestamp
                   /\ query.result[i].id > query.result[j].id

\* C10: a query returns only stored rows that satisfy every filter supplied
\* (an argument that is not None), at most limit of them and as many as limit
\* and the matching rows allow, and a list even when nothing matches.
SatisfiesSupplied(r, session_id, agent_name) ==
    /\ session_id # NoneStr => r.session_id = session_id
    /\ agent_name # NoneStr => r.agent_name = agent_name
MatchingStored ==
    {i \in 1..Len(rows) : SatisfiesSupplied(rows[i], query.session_id, query.agent_name)}
C10_QueryFiltersAndLimit ==
    Returned =>
        /\ \A k \in 1..Len(query.result) :
             /\ \E i \in 1..Len(rows) : RowDict(rows[i]) = query.result[k]
             /\ SatisfiesSupplied(query.result[k], query.session_id, query.agent_name)
        /\ Len(query.result) <= query.limit
        /\ Len(query.result) =
             (IF query.limit < Cardinality(MatchingStored)
              THEN query.limit ELSE Cardinality(MatchingStored))

\* C25: log_status stores NULL as metadata only when the caller gave no
\* metadata; for every mapping, the empty one included, it stores the serialized
\* mapping.
C25_NullMetadataOnlyWhenAbsent ==
    \A i \in 1..Len(rows) :
        (rows[i].metadata = NoneMeta) <=> (rows[i].by.event.metadata = NoneMeta)

\* ------------------------------------------------ config.py and connect()'s urls
\* A connection URL; user, password and database name are the same in all of them.
Url(host, port) == [host |-> host, port |-> port]
DB_PORT == "5432"
PublicIp == "34.29.136.71"
PrivateIp == "10.0.0.1"
ConnectionName == "agent-space-demo-475212:us-central1:finadvisor-db"

\* The environment after the defaults of os.getenv are applied.
Envs ==
    [CLOUDSQL_CONNECTION_NAME : {"", ConnectionName},
     CLOUD_RUN_MODE : BOOLEAN,
     USE_PRIVATE_IP : BOOLEAN,
     CLOUDSQL_PRIVATE_IP : {NoneStr, PrivateIp},
     DB_HOST : {PublicIp}]

\* config.get_database_url, lines 57-74.
GetDatabaseUrl_PrivateFirst(e) ==
    IF e.CLOUD_RUN_MODE /\ e.USE_PRIVATE_IP /\ TruthyStr(e.CLOUDSQL_PRIVATE_IP)
    THEN Url(e.CLOUDSQL_PRIVATE_IP, DB_PORT)
    ELSE IF TruthyStr(e.CLOUDSQL_CONNECTION_NAME)
         THEN Url("127.0.0.1", "5432")
         ELSE Url(e.DB_HOST, DB_PORT)
GetDatabaseUrl(e) ==
    IF TruthyStr(e.CLOUDSQL_CONNECTION_NAME)
    THEN Url("127.0.0.1", "5432")
    ELSE IF e.CLOUD_RUN_MODE /\ e.USE_PRIVATE_IP /\ TruthyStr(e.CLOUDSQL_PRIVATE_IP)
         THEN Url(e.CLOUDSQL_PRIVATE_IP, DB_PORT)
         ELSE Url(e.DB_HOST, DB_PORT)

\* DatabaseManager.connect, lines 36-57: the configured URL, the private IP when
\* enabled and present, the public IP.
UrlsToTry(e) ==
    <<GetDatabaseUrl(e)>>
    \o (IF e.USE_PRIVATE_IP /\ TruthyStr(e.CLOUDSQL_PRIVATE_IP)
        THEN <<Url(e.CLOUDSQL_PRIVATE_IP, DB_PORT)>> ELSE <<>>)
    \o <<Url(e.DB_HOST, DB_PORT)>>

\* ------------------------------------------------------ DatabaseManager.connect
Procs == {0} \cup Reqs
NoError == [cand |-> 0, stage |-> "none"]
ErrorAt(i, stage) == [cand |-> i, stage |-> stage]

\* connect, line 85: last_error = e
RecordError_KeepFirst(prev, e) == IF prev = NoError THEN e ELSE prev
RecordError(prev, e) == e

\* connect, line 73: self.pool = await asyncpg.create_pool(url, ...)
AssignPool(made) == Len(made)

\* The try block of the startup code raised.  http_server.startup_event logs the
\* exception and the service starts without a database (lines 245-248);
\* server.main logs it and raises it again (lines 219-221): the process ends.
AfterStartupFailure == IF surface = "http" THEN "serving" ELSE "exited"

\* connect raised (line 90); its locals url and last_error are gone.
\* In a request the dependency get_db_manager fails and the answer is 500.
ConnectRaised(p, err) ==
    /\ raised' = [raised EXCEPT ![p] = err]
    /\ pc' = [pc EXCEPT ![p] = IF p = 0 THEN "failed" ELSE "done"]
    /\ cidx' = [cidx EXCEPT ![p] = 0]
    /\ last_error' = [last_error EXCEPT ![p] = NoError]
    /\ IF p = 0
       THEN phase' = AfterStartupFailure /\ resp' = resp
       ELSE phase' = phase /\ resp' = [resp EXCEPT ![p] = 500]

\* connect, lines 81-90: the except branch of one url, then the next url, or
\* raise last_error after the last one.
ConnectFailed(p, e) ==
    IF cidx[p] < Len(UrlsToTry(env))
    THEN /\ last_error' = [last_error EXCEPT ![p] = RecordError(@, e)]
         /\ cidx' = [cidx EXCEPT ![p] = @ + 1]
         /\ pc' = [pc EXCEPT ![p] = "probe"]
         /\ UNCHANGED <<raised, phase, resp>>
    ELSE ConnectRaised(p, RecordError(last_error[p], e))

\* connect is called; it runs to the await of asyncpg.connect for the first url.
ConnectStart_FromSecond(p) ==
    /\ cidx' = [cidx EXCEPT ![p] = 2]
    /\ pc' = [pc EXCEPT ![p] = "probe"]
ConnectStart(p) ==
    /\ cidx' = [cidx EXCEPT ![p] = 1]
    /\ pc' = [pc EXCEPT ![p] = "probe"]

\* connect, lines 66-68: the test connection.  asyncpg.connect raises, or the
\* connection is opened and SELECT 1 raises, or close raises, or all three return.
\* After a failed SELECT 1 or a failed close nothing else closes the connection.
Probe(p) ==
    /\ pc[p] = "probe"
    /\ \/ /\ ConnectFailed(p, ErrorAt(cidx[p], "connect"))
          /\ UNCHANGED probe_left_open
       \/ /\ ConnectFailed(p, ErrorAt(cidx[p], "execute"))
          /\ probe_left_open' = TRUE
       \/ /\ ConnectFailed(p, ErrorAt(cidx[p], "close"))
          /\ probe_left_open' = TRUE
       \/ /\ pc' = [pc EXCEPT ![p] = "create_pool"]
          /\ UNCHANGED <<probe_left_open, cidx, last_error, raised, phase, resp>>
    /\ UNCHANGED <<env, surface, pool, pools_made, tvars>>

\* connect, lines 73-80: create_pool returns and connect returns, or it raises.
CreatePool(p) ==
    /\ pc[p] = "create_pool"
    /\ \/ /\ pools_made' = Append(pools_made,
                                  [url |-> UrlsToTry(env)[cidx[p]], by |-> p, open |-> TRUE,
                                   tables |-> FALSE])
          /\ pool' = AssignPool(pools_made')
          /\ pc' = [pc EXCEPT ![p] = "create_tables"]
          /\ cidx' = [cidx EXCEPT ![p] = 0]
          /\ last_error' = [last_error EXCEPT ![p] = NoError]
          /\ UNCHANGED <<raised, phase, resp>>
       \/ /\ ConnectFailed(p, ErrorAt(cidx[p], "create_pool"))
          /\ UNCHANGED <<pool, pools_made>>
    /\ UNCHANGED <<env, surface, probe_left_open, tvars>>

\* DatabaseManager.close (lines 94-96) closes the pool self.pool names.
ClosePool_LeavesOpen(made, n) == made
ClosePool(made, n) ==
    [i \in 1..Len(made) |-> IF i = n THEN [made[i] EXCEPT !.open = FALSE] ELSE made[i]]

\* create_tables has returned: the statements ran on a connection of pool n.
TablesCreated(made, n) ==
    [i \in 1..Len(made) |-> IF i = n THEN [made[i] EXCEPT !.tables = TRUE] ELSE made[i]]

\* create_tables (lines 119-121) after connect, in the startup code or in
\* get_db_manager (line 92): it returns or raises.  When server.main ends on the
\* exception, its finally clause closes the pool (line 224).
CreateTables(p) ==
    /\ pc[p] = "create_tables"
    /\ \E ok \in BOOLEAN :
         IF p = 0
         THEN /\ phase' = IF ok THEN "serving" ELSE AfterStartupFailure
              /\ pc' = [pc EXCEPT ![p] = IF ok THEN "done" ELSE "failed"]
              /\ resp' = resp
              /\ pools_made' = IF ok THEN TablesCreated(pools_made, pool)
                                ELSE IF phase' = "serving" THEN pools_made
                                ELSE ClosePool(pools_made, pool)
         ELSE /\ phase' = phase
              /\ pc' = [pc EXCEPT ![p] = IF ok THEN "op" ELSE "done"]
              /\ resp' = [resp EXCEPT ![p] = IF ok THEN @ ELSE 500]
              /\ pools_made' = IF ok THEN TablesCreated(pools_made, pool) ELSE pools_made
    /\ UNCHANGED <<env, surface, pool, probe_left_open, cidx, last_error,
                   raised, tvars>>

\* startup_event, lines 239-242, up to the first await of connect.
StartupEvent ==
    /\ phase = "startup"
    /\ pc[0] = "idle"
    /\ ConnectStart(0)
    /\ UNCHANGED <<env, surface, pool, pools_made, probe_left_open, phase, last_error, raised,
                   resp, tvars>>

\* A request to /log_status or /query_logs arrives: get_db_manager (lines 88-93)
\* calls connect when db_manager.pool is falsy.
RequestArrives(p) ==
    /\ surface = "http"
    /\ phase = "serving"
    /\ pc[p] = "idle"
    /\ IF pool = 0
       THEN ConnectStart(p)
       ELSE /\ pc' = [pc EXCEPT ![p] = "op"]
            /\ UNCHANGED cidx
    /\ UNCHANGED <<env, surface, pool, pools_made, probe_left_open, phase, last_error, raised,
                   resp, tvars>>

\* The handler body (lines 169-192, 202-220): the store operation returns and
\* the answer is 200, or it raises and the answer is 500.  Nothing before this
\* point depends on which of the two endpoints was requested.
HandlerDone(p) ==
    /\ pc[p] = "op"
    /\ \/ /\ resp' = [resp EXCEPT ![p] = 200]
          /\ \E endpoint \in {"log_status", "query_logs"} :
               IF endpoint = "log_status"
               THEN /\ StoreInsert("s1", UserId, "a1", StatusType, Message,
                                   MetadataParam(NoneMeta), [req |-> "http"])
                    /\ clock' = clock + 1
               ELSE UNCHANGED tvars
       \/ /\ resp' = [resp EXCEPT ![p] = 500]
          /\ UNCHANGED tvars
    /\ pc' = [pc EXCEPT ![p] = "done"]
    /\ UNCHANGED <<env, surface, pool, pools_made, probe_left_open, phase, cidx,
                   last_error, raised>>

\* shutdown_event (lines 251-257) once the requests in flight are answered:
\* DatabaseManager.close closes the pool db_manager.pool names (lines 94-96).
ShutdownEvent ==
    /\ phase = "serving"
    /\ \A p \in Reqs : pc[p] \in {"idle", "done"}
    /\ phase' = "stopped"
    /\ pools_made' = ClosePool(pools_made, pool)
    /\ UNCHANGED <<env, surface, pool, probe_left_open, pc, cidx, last_error, raised,
                   resp, tvars>>

ServiceStart ==
    /\ pool = 0
    /\ pools_made = <<>>
    /\ probe_left_open = FALSE
    /\ phase = "startup"
    /\ pc = [p \in Procs |-> "idle"]
    /\ cidx = [p \in Procs |-> 0]
    /\ last_error = [p \in Procs |-> NoError]
    /\ raised = [p \in Procs |-> NoError]
    /\ resp = [p \in Procs |-> 0]


\* ---------------------------------------------- the handlers of the two servers
\* A request: the endpoint or tool, whether the five required fields of an insert
\* are all there, and the limit of a query when the caller gave one.
Request(k, complete, has_limit, limit) ==
    [kind |-> k, complete |-> complete, has_limit |-> has_limit, limit |-> limit]
NoRequest == Request("none", TRUE, FALSE, 0)
InsertRequests == {Request("log_status", complete, FALSE, 0) : complete \in BOOLEAN}
\* limits a caller can send: negative, zero, in range, above 1000
LimitInputs == {-1, 0, 50, 1001}
QueryRequests ==
    {Request("query_logs", TRUE, FALSE, 0)}
    \cup {Request("query_logs", TRUE, TRUE, limit) : limit \in LimitInputs}
HealthRequest == Request("health", TRUE, FALSE, 0)

\* query_logs, `limit: int = 100` (http_server.py line 196), and call_tool,
\* arguments.get("limit", 100) (server.py line 165): the value is passed on as it is.
DefaultLimit == 100
LimitArg(req) == IF req.has_limit THEN req.limit ELSE DefaultLimit

\* A handler's use of the store: the calls it made, the pool db.pool named when
\* it called, the limit it passed and how the call ended.
NoStoreCall == [calls |-> 0, pool |-> 0, limit |-> 0, out |-> "none"]
StoreError == "asyncpg.PostgresError"

\* Answers.  code is the HTTP status (0 on the stdio surface), ok is success
\* (HTTP) or not isError (stdio), text and err are the fixed text and the
\* interpolated str(e) of the message.
Answer(code, ok, text, err) ==
    [code |-> code, ok |-> ok, text |-> text, err |-> err, database_connected |-> FALSE]
NoAnswer == Answer(0, FALSE, "", "")

\* FastAPI's answer to a body that fails LogStatusRequest (lines 59-65).
ValidationAnswer == Answer(422, FALSE, "validation error", "")
\* call_tool, server.py lines 137-144.
MissingFieldsAnswer == Answer(0, FALSE, "Error: Missing required fields", "")

\* The success answers: http_server.py lines 181-185 and 209-213, server.py
\* lines 156-161 and 176-181.
SuccessAnswer(k) ==
    IF surface = "http"
    THEN Answer(200, TRUE, IF k = "log_status" THEN "Status logged successfully with ID: "
                           ELSE "logs", "")
    ELSE Answer(0, TRUE, IF k = "log_status" THEN "Successfully logged status with ID: "
                         ELSE "logs", "")

\* The except clauses: http_server.py lines 187-192 and 215-220 raise
\* HTTPException(500, detail=...), server.py lines 192-200 return isError=True.
FailureAnswer_Swallowed(k, e) == SuccessAnswer(k)
FailureAnswer(k, e) ==
    IF surface = "http"
    THEN Answer(500, FALSE, IF k = "log_status" THEN "Failed to log status: "
                            ELSE "Failed to query logs: ", e)
    ELSE Answer(0, FALSE, "Error: ", e)

\* health_check, lines 154-158: the answer after the probe (or without one).
HealthAnswer_ProbeErrorUnhealthy(probe) ==
    [code |-> IF probe = "failed" THEN 503 ELSE 200, ok |-> probe # "failed",
     text |-> IF probe = "failed" THEN "Service unhealthy" ELSE "healthy", err |-> "",
     database_connected |-> (probe = "answered")]
HealthAnswer(probe) ==
    [code |-> 200, ok |-> TRUE, text |-> "healthy", err |-> "",
     database_connected |-> (probe = "answered")]

\* The handler calls the store (db.log_status / db.get_recent_logs) and awaits it.
CallStore(p, req) ==
    /\ f_req' = [f_req EXCEPT ![p] = req]
    /\ f_store' = [f_store EXCEPT ![p] =
                      [calls |-> @.calls + 1,
                       pool |-> pool,
                       limit |-> IF req.kind = "query_logs" THEN LimitArg(req) ELSE 0,
                       out |-> "none"]]
    /\ pc' = [pc EXCEPT ![p] = "store"]
    /\ UNCHANGED <<f_result, resp>>

\* The handler answers without calling the store.
AnswerNow(p, req, answer) ==
    /\ f_req' = [f_req EXCEPT ![p] = req]
    /\ f_result' = [f_result EXCEPT ![p] = answer]
    /\ resp' = [resp EXCEPT ![p] = answer.code]
    /\ pc' = [pc EXCEPT ![p] = "done"]
    /\ UNCHANGED f_store

\* POST /log_status or GET /query_logs after the dependency get_db_manager has
\* returned.  FastAPI calls the dependencies of a route first and reports the
\* validation errors of the body after that, so a body with a missing field
\* is answered here, with 422; a valid request enters the handler, which calls
\* the store (lines 170, 203).
HttpEndpoint(p) ==
    /\ surface = "http"
    /\ pc[p] = "op"
    /\ \E req \in InsertRequests \cup QueryRequests :
         IF req.complete THEN CallStore(p, req) ELSE AnswerNow(p, req, ValidationAnswer)
    /\ UNCHANGED <<env, surface, pool, pools_made, probe_left_open, phase, cidx,
                   last_error, raised, tvars>>

\* call_tool of server.py (lines 124-181): log_agent_status checks the required
\* fields and then calls the store; query_agent_logs calls the store.
CallTool(p) ==
    /\ surface = "stdio"
    /\ phase = "serving"
    /\ pc[p] = "idle"
    /\ \E req \in InsertRequests \cup QueryRequests :
         IF req.complete THEN CallStore(p, req) ELSE AnswerNow(p, req, MissingFieldsAnswer)
    /\ UNCHANGED <<env, surface, pool, pools_made, probe_left_open, phase, cidx,
                   last_error, raised, tvars>>

\* The store call returns or raises, and the handler answers.  A negative limit
\* makes the SELECT fail.
StoreAnswers(p) ==
    /\ pc[p] = "store"
    /\ \/ /\ f_req[p].kind = "query_logs" => f_store[p].limit >= 0
          /\ f_store' = [f_store EXCEPT ![p].out = "returned"]
          /\ f_result' = [f_result EXCEPT ![p] = SuccessAnswer(f_req[p].kind)]
          /\ IF f_req[p].kind = "log_status"
             THEN /\ StoreInsert("s1", UserId, "a1", StatusType, Message,
                                 MetadataParam(NoneMeta), [req |-> "http"])
                  /\ clock' = clock + 1
             ELSE UNCHANGED tvars
       \/ /\ f_store' = [f_store EXCEPT ![p].out = "raised"]
          /\ f_result' = [f_result EXCEPT ![p] = FailureAnswer(f_req[p].kind, StoreError)]
          /\ UNCHANGED tvars
    /\ resp' = [resp EXCEPT ![p] = f_result'[p].code]
    /\ pc' = [pc EXCEPT ![p] = "done"]
    /\ UNCHANGED <<env, surface, pool, pools_made, probe_left_open, phase, cidx,
                   last_error, raised, f_req>>

\* GET /health (lines 141-158): without a pool it answers at once; with one it
\* awaits pool.acquire and SELECT 1.
HealthCheck(p) ==
    /\ surface = "http"
    /\ phase = "serving"
    /\ pc[p] = "idle"
    /\ IF pool = 0
       THEN AnswerNow(p, HealthRequest, HealthAnswer("no_pool"))
       ELSE /\ f_req' = [f_req EXCEPT ![p] = HealthRequest]
            /\ pc' = [pc EXCEPT ![p] = "health_probe"]
            /\ UNCHANGED <<f_store, f_result, resp>>
    /\ UNCHANGED <<env, surface, pool, pools_made, probe_left_open, phase, cidx,
                   last_error, raised, tvars>>

\* The probe of health_check answered, or acquire or SELECT 1 raised (lines 147-152).
HealthProbed(p) ==
    /\ pc[p] = "health_probe"
    /\ \E probe \in {"answered", "failed"} :
         /\ f_store' = [f_store EXCEPT ![p].out = probe]
         /\ f_result' = [f_result EXCEPT ![p] = HealthAnswer(probe)]
    /\ resp' = [resp EXCEPT ![p] = f_result'[p].code]
    /\ pc' = [pc EXCEPT ![p] = "done"]
    /\ UNCHANGED <<env, surface, pool, pools_made, probe_left_open, phase, cidx,
                   last_error, raised, f_req, tvars>>

FacadeIdle ==
    /\ f_req = [p \in Procs |-> NoRequest]
    /\ f_store = [p \in Procs |-> NoStoreCall]
    /\ f_result = [p \in Procs |-> NoAnswer]

\* ------------------------------------------------------------ the close() calls
\* The two objects that own a pool: db_manager and the StatusLoggerTool.
Closers == {"manager", "tool"}

\* One close() call: the pool self.pool named when it was called (0: None),
\* whether that pool was still open, and whether the call raised to its caller.
CloseCall(n, was_open, err) == [pool |-> n, was_open |-> was_open, raised |-> err]

\* DatabaseManager.close (lines 92-96): `if self.pool: await self.pool.close()`;
\* self.pool keeps naming the pool.  Pool.close() returns at once on a closed
\* pool; on an open pool it closes the connections, and when that fails it
\* terminates them and raises, which close() hands on to its caller.
ManagerClose ==
    /\ Len(closes["manager"]) < MaxCloses
    /\ pc[0] \in {"idle", "done", "failed"}
    /\ IF pool = 0
       THEN /\ closes' = [closes EXCEPT !["manager"] = Append(@, CloseCall(0, FALSE, FALSE))]
            /\ UNCHANGED pools_made
       ELSE /\ pools_made' = ClosePool(pools_made, pool)
            /\ \E pool_close_raises \in BOOLEAN :
                 /\ pool_close_raises => pools_made[pool].open
                 /\ closes' = [closes EXCEPT !["manager"] =
                                  Append(@, CloseCall(pool, pools_made[pool].open,
                                                      pool_close_raises))]
    /\ UNCHANGED <<env, surface, pool, probe_left_open, phase, pc, cidx, last_error,
                   raised, resp, tool_closed, tvars>>

\* StatusLoggerTool.close (lines 197-213): the pool is closed and self._pool set
\* to None; an exception of Pool.close() is logged and self._pool stays.  Then
\* the same for the HTTP client.
ToolClose ==
    /\ Len(closes["tool"]) < MaxCloses
    /\ \A c \in Calls : run_pc[c] \in {"idle", "done"}
    /\ \E pool_close_raises, aclose_raises \in BOOLEAN :
         /\ IF tool_pool # 0
            THEN /\ pool_close_raises => tool_pool \notin tool_closed
                 /\ tool_closed' = tool_closed \cup {tool_pool}
                 /\ tool_pool' = IF pool_close_raises THEN tool_pool ELSE 0
                 /\ closes' = [closes EXCEPT !["tool"] =
                                  Append(@, CloseCall(tool_pool, tool_pool \notin tool_closed,
                                                      FALSE))]
            ELSE /\ ~pool_close_raises
                 /\ closes' = [closes EXCEPT !["tool"] = Append(@, CloseCall(0, FALSE, FALSE))]
                 /\ UNCHANGED <<tool_pool, tool_closed>>
         /\ IF http_client
            THEN http_client' = aclose_raises
            ELSE ~aclose_raises /\ UNCHANGED http_client
    /\ UNCHANGED <<use_http_server, mcp_server_url, tool_pools, run_pc, run_meta, run_hdr,
                   run_resp, remote_stored, run_ret, run_http_err, run_db_err, http_calls,
                   db_calls, logged, tvars>>

CloseIdle ==
    /\ tool_closed = {}
    /\ closes = [o \in Closers |-> <<>>]

\* ------------------------------------------- borrowing a connection of the pool
\* log_status (line 134), get_recent_logs (line 189) and health_check (line 148)
\* all run one statement inside `async with pool.acquire() as conn:`.
Operations == {"log_status", "get_recent_logs", "health_check"}

\* __aexit__ of the acquire context: the connection goes back to the pool however
\* the body ended.
AExit_OnlyOnReturn(n, out) == IF out = "returned" THEN n + 1 ELSE n
AExit(n, out) == n + 1

\* An operation is called; it runs to the await in pool.acquire().
OperationCall(o) ==
    /\ b_pc[o] = "idle"
    /\ \E k \in Operations : b_kind' = [b_kind EXCEPT ![o] = k]
    /\ b_pc' = [b_pc EXCEPT ![o] = "acquire"]
    /\ UNCHANGED <<idle_conns, b_out>>

\* What the caller of the operation sees when the body or acquire ended with out:
\* log_status and get_recent_logs log and re-raise (lines 151-153, 192-194);
\* health_check catches Exception (line 151) but not a cancellation.
Outcome(k, out) == IF k = "health_check" /\ out = "raised" THEN "returned" ELSE out

\* __aenter__: a free connection is handed out; or acquire raises; or the task is
\* cancelled while it waits.  In the last two cases nothing was borrowed.
Acquire(o) ==
    /\ b_pc[o] = "acquire"
    /\ \/ /\ idle_conns > 0
          /\ idle_conns' = idle_conns - 1
          /\ b_pc' = [b_pc EXCEPT ![o] = "body"]
          /\ UNCHANGED b_out
       \/ /\ \E out \in {"raised", "cancelled"} :
               b_out' = [b_out EXCEPT ![o] = Outcome(b_kind[o], out)]
          /\ b_pc' = [b_pc EXCEPT ![o] = "done"]
          /\ UNCHANGED idle_conns
    /\ UNCHANGED b_kind

\* The statement of the body (fetchval / fetch) returns, raises, or the task is
\* cancelled while it waits for the database.
Body(o) ==
    /\ b_pc[o] = "body"
    /\ \E out \in {"returned", "raised", "cancelled"} :
         b_out' = [b_out EXCEPT ![o] = out]
    /\ b_pc' = [b_pc EXCEPT ![o] = "exit"]
    /\ UNCHANGED <<idle_conns, b_kind>>

\* Leaving the `async with` block, then the except clauses of the operation.
Release(o) ==
    /\ b_pc[o] = "exit"
    /\ idle_conns' = AExit(idle_conns, b_out[o])
    /\ b_out' = [b_out EXCEPT ![o] = Outcome(b_kind[o], @)]
    /\ b_pc' = [b_pc EXCEPT ![o] = "done"]
    /\ UNCHANGED b_kind

\* The caller has the result and the slot serves the next operation.
OperationTaken(o) ==
    /\ b_pc[o] = "done"
    /\ b_pc' = [b_pc EXCEPT ![o] = "idle"]
    /\ b_kind' = [b_kind EXCEPT ![o] = "none"]
    /\ b_out' = [b_out EXCEPT ![o] = "none"]
    /\ UNCHANGED idle_conns

BorrowIdle ==
    /\ idle_conns = PoolMaxSize
    /\ b_pc = [o \in Reqs |-> "idle"]
    /\ b_kind = [o \in Reqs |-> "none"]
    /\ b_out = [o \in Reqs |-> "none"]

\* ------------------------------------------------ create_tables and the schema
\* create_tables, lines 100-117: one table and two indexes.
TableName == "agent_status_logs"
IndexNames == {"idx_agent_status_logs_timestamp", "idx_agent_status_logs_session_id"}
Relations == {TableName} \cup IndexNames
NoRelations == [r \in Relations |-> 0]
AllRelations == [r \in Relations |-> 1]

\* create_tables is called; it runs to the await in pool.acquire() (line 119).
CreateTablesCall(c) ==
    /\ ct_pc[c] = "idle"
    /\ ct_pc' = [ct_pc EXCEPT ![c] = "acquire"]
    /\ UNCHANGED <<catalog, ct_new, ct_out, tvars>>

\* The pool hands it a connection; it runs to the await of conn.execute (line 120).
CreateTablesAcquired(c) ==
    /\ ct_pc[c] = "acquire"
    /\ ct_pc' = [ct_pc EXCEPT ![c] = "table"]
    /\ UNCHANGED <<catalog, ct_new, ct_out, tvars>>

\* conn.execute(create_table_sql) runs the three statements in one implicit
\* transaction.  CREATE TABLE IF NOT EXISTS looks the name up among the committed
\* relations: when it is there the statement is skipped; when it is not, the
\* statement creates the table, unless another open transaction has created the
\* same name: then it waits for that transaction.
ExecCreateTable(c) ==
    /\ ct_pc[c] = "table"
    /\ IF catalog[TableName] > 0
       THEN /\ ct_pc' = [ct_pc EXCEPT ![c] = "indexes"]
            /\ UNCHANGED ct_new
       ELSE IF \E d \in Reqs : TableName \in ct_new[d]
            THEN /\ ct_pc' = [ct_pc EXCEPT ![c] = "waiting"]
                 /\ UNCHANGED ct_new
            ELSE /\ ct_pc' = [ct_pc EXCEPT ![c] = "indexes"]
                 /\ ct_new' = [ct_new EXCEPT ![c] = {TableName}]
    /\ UNCHANGED <<catalog, ct_out, tvars>>

\* The two CREATE INDEX IF NOT EXISTS statements: an index that exists is skipped.
ExecCreateIndexes(c) ==
    /\ ct_pc[c] = "indexes"
    /\ ct_new' = [ct_new EXCEPT ![c] = @ \cup {i \in IndexNames : catalog[i] = 0}]
    /\ ct_pc' = [ct_pc EXCEPT ![c] = "commit"]
    /\ UNCHANGED <<catalog, ct_out, tvars>>

\* The transaction commits, execute returns and create_tables returns (line 121).
CommitCreateTables(c) ==
    /\ ct_pc[c] = "commit"
    /\ catalog' = [r \in Relations |-> IF r \in ct_new[c] THEN catalog[r] + 1 ELSE catalog[r]]
    /\ ct_new' = [ct_new EXCEPT ![c] = {}]
    /\ ct_out' = [ct_out EXCEPT ![c] = "returned"]
    /\ ct_pc' = [ct_pc EXCEPT ![c] = "done"]
    /\ UNCHANGED tvars

\* The transaction this statement waited for has committed the table: the
\* statement fails on the catalog's unique index, execute raises and so does
\* create_tables (it has no except clause).
WaitingCreateTableFails(c) ==
    /\ ct_pc[c] = "waiting"
    /\ catalog[TableName] > 0
    /\ ct_out' = [ct_out EXCEPT ![c] = "raised"]
    /\ ct_pc' = [ct_pc EXCEPT ![c] = "done"]
    /\ UNCHANGED <<catalog, ct_new, tvars>>

\* The caller has the result; it may call create_tables again.
CreateTablesTaken(c) ==
    /\ ct_pc[c] = "done"
    /\ ct_pc' = [ct_pc EXCEPT ![c] = "idle"]
    /\ ct_out' = [ct_out EXCEPT ![c] = "none"]
    /\ UNCHANGED <<catalog, ct_new, tvars>>

SchemaCallsIdle ==
    /\ ct_pc = [c \in Reqs |-> "idle"]
    /\ ct_new = [c \in Reqs |-> {}]
    /\ ct_out = [c \in Reqs |-> "none"]

\* The other parts of the model work on a database whose schema exists.
SchemaIdle == catalog = AllRelations /\ SchemaCallsIdle

\* A row stored before the create_tables calls start.
StoredEarlier ==
    <<InsertedRow(1, 0, "s1", "u1", "a1", StatusType, Message,
                  MetadataParam(NoneMeta), [slot |-> 0])>>

\* ------------------------------------------------------------ specifications
vars == <<tvars, dvars, lvars, svars, bvars, cvars, fvars, xvars>>

DefaultEnv ==
    [CLOUDSQL_CONNECTION_NAME |-> ConnectionName, CLOUD_RUN_MODE |-> FALSE,
     USE_PRIVATE_IP |-> FALSE, CLOUDSQL_PRIVATE_IP |-> NoneStr, DB_HOST |-> PublicIp]
DispatchIdle == DispatchInit /\ ~use_http_server /\ mcp_server_url = NoneStr
\* A database with the schema and no rows, and nobody calling it.
DatabaseIdle == TableInit /\ SchemaIdle /\ StoreIdle /\ BorrowIdle
ServiceIdle == ServiceStart /\ env = DefaultEnv /\ surface = "http"

\* The environments the service is started in: the defaults (proxy first), a
\* proxy with a private IP, and Cloud Run with a private IP and no proxy.
ServiceEnvs ==
    {DefaultEnv,
     [DefaultEnv EXCEPT !.USE_PRIVATE_IP = TRUE, !.CLOUDSQL_PRIVATE_IP = PrivateIp],
     [DefaultEnv EXCEPT !.CLOUDSQL_CONNECTION_NAME = "", !.CLOUD_RUN_MODE = TRUE,
                        !.USE_PRIVATE_IP = TRUE, !.CLOUDSQL_PRIVATE_IP = PrivateIp]}

\* The client dispatcher: one StatusLoggerTool and its concurrent run() calls.
Init == DispatchInit /\ DatabaseIdle /\ ServiceIdle /\ FacadeIdle /\ CloseIdle
Next ==
    \/ \E c \in Calls : RunStart(c) /\ UNCHANGED <<lvars, svars, bvars, cvars, fvars, xvars>>
    \/ \E c \in Calls : PostRaised(c) /\ UNCHANGED <<lvars, svars, bvars, cvars, fvars, xvars>>
    \/ \E c \in Calls : PostAnswered(c) /\ UNCHANGED <<lvars, svars, bvars, cvars, fvars, xvars>>
    \/ \E c \in Calls : CreatePoolDone(c) /\ UNCHANGED <<lvars, svars, bvars, cvars, fvars, xvars>>
    \/ \E c \in Calls : InsertDone(c) /\ UNCHANGED <<lvars, svars, bvars, cvars, fvars, xvars>>
Spec == Init /\ [][Next]_vars

\* The log store: concurrent log_status calls and queries on an established pool.
StoreInit == DatabaseIdle /\ DispatchIdle /\ ServiceIdle /\ FacadeIdle /\ CloseIdle
StoreNext ==
    \/ \E s \in Slots : LogStatusCall(s) /\ UNCHANGED <<dvars, svars, bvars, cvars, fvars, xvars>>
    \/ \E s \in Slots : LogStatusExec(s) /\ UNCHANGED <<dvars, svars, bvars, cvars, fvars, xvars>>
    \/ \E s \in Slots : LogStatusReturn(s) /\ UNCHANGED <<dvars, svars, bvars, cvars, fvars, xvars>>
    \/ GetRecentLogs /\ UNCHANGED <<dvars, svars, bvars, cvars, fvars, xvars>>
    \/ QueryTaken /\ UNCHANGED <<dvars, svars, bvars, cvars, fvars, xvars>>
SpecStore == StoreInit /\ [][StoreNext]_vars

\* The HTTP service: startup, concurrent requests, shutdown.
PoolInit ==
    /\ DatabaseIdle /\ DispatchIdle /\ FacadeIdle /\ CloseIdle
    /\ ServiceStart /\ surface = "http" /\ env \in ServiceEnvs
PoolNext ==
    \/ StartupEvent /\ UNCHANGED <<dvars, lvars, bvars, cvars, fvars, xvars>>
    \/ \E p \in Procs : Probe(p) /\ UNCHANGED <<dvars, lvars, bvars, cvars, fvars, xvars>>
    \/ \E p \in Procs : CreatePool(p) /\ UNCHANGED <<dvars, lvars, bvars, cvars, fvars, xvars>>
    \/ \E p \in Procs : CreateTables(p) /\ UNCHANGED <<dvars, lvars, bvars, cvars, fvars, xvars>>
    \/ \E p \in Reqs : RequestArrives(p) /\ UNCHANGED <<dvars, lvars, bvars, cvars, fvars, xvars>>
    \/ \E p \in Reqs : HandlerDone(p) /\ UNCHANGED <<dvars, lvars, bvars, cvars, fvars, xvars>>
    \/ ShutdownEvent /\ UNCHANGED <<dvars, lvars, bvars, cvars, fvars, xvars>>
SpecPool == PoolInit /\ [][PoolNext]_vars

\* The resolver: the service is started in any environment and startup_event's
\* connect() walks through urls_to_try.
ResolveInit ==
    /\ DatabaseIdle /\ DispatchIdle /\ FacadeIdle /\ CloseIdle
    /\ ServiceStart /\ surface = "http" /\ env \in Envs
ResolveNext ==
    \/ StartupEvent /\ UNCHANGED <<dvars, lvars, bvars, cvars, fvars, xvars>>
    \/ Probe(0) /\ UNCHANGED <<dvars, lvars, bvars, cvars, fvars, xvars>>
    \/ CreatePool(0) /\ UNCHANGED <<dvars, lvars, bvars, cvars, fvars, xvars>>
    \/ CreateTables(0) /\ UNCHANGED <<dvars, lvars, bvars, cvars, fvars, xvars>>
SpecResolve == ResolveInit /\ [][ResolveNext]_vars

\* One established pool and the concurrent operations that borrow from it.
BorrowInit == DatabaseIdle /\ DispatchIdle /\ ServiceIdle /\ FacadeIdle /\ CloseIdle
BorrowNext ==
    \/ \E o \in Reqs : OperationCall(o) /\ UNCHANGED <<tvars, dvars, lvars, svars, cvars, fvars, xvars>>
    \/ \E o \in Reqs : Acquire(o) /\ UNCHANGED <<tvars, dvars, lvars, svars, cvars, fvars, xvars>>
    \/ \E o \in Reqs : Body(o) /\ UNCHANGED <<tvars, dvars, lvars, svars, cvars, fvars, xvars>>
    \/ \E o \in Reqs : Release(o) /\ UNCHANGED <<tvars, dvars, lvars, svars, cvars, fvars, xvars>>
    \/ \E o \in Reqs : OperationTaken(o) /\ UNCHANGED <<tvars, dvars, lvars, svars, cvars, fvars, xvars>>
SpecBorrow == BorrowInit /\ [][BorrowNext]_vars

\* create_tables called by concurrent callers (the requests of the race in
\* get_db_manager, or service instances starting together) on a fresh database
\* or on one that has the schema and a row.
SchemaInit ==
    /\ SchemaCallsIdle /\ StoreIdle /\ BorrowIdle /\ DispatchIdle /\ ServiceIdle /\ FacadeIdle
    /\ CloseIdle
    /\ \/ catalog = NoRelations /\ TableInit
       \/ catalog = AllRelations /\ rows = StoredEarlier /\ next_id = 2 /\ clock = 1
SchemaNext ==
    \/ \E c \in Reqs : CreateTablesCall(c) /\ UNCHANGED <<dvars, lvars, svars, bvars, fvars, xvars>>
    \/ \E c \in Reqs : CreateTablesAcquired(c) /\ UNCHANGED <<dvars, lvars, svars, bvars, fvars, xvars>>
    \/ \E c \in Reqs : ExecCreateTable(c) /\ UNCHANGED <<dvars, lvars, svars, bvars, fvars, xvars>>
    \/ \E c \in Reqs : ExecCreateIndexes(c) /\ UNCHANGED <<dvars, lvars, svars, bvars, fvars, xvars>>
    \/ \E c \in Reqs : CommitCreateTables(c) /\ UNCHANGED <<dvars, lvars, svars, bvars, fvars, xvars>>
    \/ \E c \in Reqs : WaitingCreateTableFails(c) /\ UNCHANGED <<dvars, lvars, svars, bvars, fvars, xvars>>
    \/ \E c \in Reqs : CreateTablesTaken(c) /\ UNCHANGED <<dvars, lvars, svars, bvars, fvars, xvars>>
SpecSchema == SchemaInit /\ [][SchemaNext]_vars

\* The two servers with their handlers: the HTTP service (startup_event, the
\* endpoints) or the stdio server (main, call_tool), in the default environment.
Handled == 1..MaxHandlers
Started == {0} \cup Handled
FacadeInit ==
    /\ DatabaseIdle /\ DispatchIdle /\ FacadeIdle /\ CloseIdle
    /\ ServiceStart /\ surface \in {"http", "stdio"} /\ env = DefaultEnv
FacadeNext ==
    \/ StartupEvent /\ UNCHANGED <<dvars, lvars, bvars, cvars, fvars, xvars>>
    \/ \E p \in Started : Probe(p) /\ UNCHANGED <<dvars, lvars, bvars, cvars, fvars, xvars>>
    \/ \E p \in Started : CreatePool(p) /\ UNCHANGED <<dvars, lvars, bvars, cvars, fvars, xvars>>
    \/ \E p \in Started : CreateTables(p) /\ UNCHANGED <<dvars, lvars, bvars, cvars, fvars, xvars>>
    \/ \E p \in Handled : RequestArrives(p) /\ UNCHANGED <<dvars, lvars, bvars, cvars, fvars, xvars>>
    \/ \E p \in Handled : HttpEndpoint(p) /\ UNCHANGED <<dvars, lvars, bvars, cvars, xvars>>
    \/ \E p \in Handled : CallTool(p) /\ UNCHANGED <<dvars, lvars, bvars, cvars, xvars>>
    \/ \E p \in Handled : StoreAnswers(p) /\ UNCHANGED <<dvars, lvars, bvars, cvars, xvars>>
    \/ \E p \in Handled : HealthCheck(p) /\ UNCHANGED <<dvars, lvars, bvars, cvars, xvars>>
    \/ \E p \in Handled : HealthProbed(p) /\ UNCHANGED <<dvars, lvars, bvars, cvars, xvars>>
SpecFacade == FacadeInit /\ [][FacadeNext]_vars

\* close() called any number of times on db_manager and on a StatusLoggerTool,
\* before and after the startup code and one run() call have established a pool.
CloseInit == DispatchInit /\ DatabaseIdle /\ ServiceIdle /\ FacadeIdle /\ CloseIdle
CloseNext ==
    \/ StartupEvent /\ UNCHANGED <<dvars, lvars, bvars, cvars, fvars, xvars>>
    \/ Probe(0) /\ UNCHANGED <<dvars, lvars, bvars, cvars, fvars, xvars>>
    \/ CreatePool(0) /\ UNCHANGED <<dvars, lvars, bvars, cvars, fvars, xvars>>
    \/ CreateTables(0) /\ UNCHANGED <<dvars, lvars, bvars, cvars, fvars, xvars>>
    \/ ManagerClose /\ UNCHANGED <<dvars, lvars, bvars, cvars, fvars>>
    \/ RunStart(1) /\ UNCHANGED <<lvars, svars, bvars, cvars, fvars, xvars>>
    \/ PostRaised(1) /\ UNCHANGED <<lvars, svars, bvars, cvars, fvars, xvars>>
    \/ PostAnswered(1) /\ UNCHANGED <<lvars, svars, bvars, cvars, fvars, xvars>>
    \/ CreatePoolDone(1) /\ UNCHANGED <<lvars, svars, bvars, cvars, fvars, xvars>>
    \/ InsertDone(1) /\ UNCHANGED <<lvars, svars, bvars, cvars, fvars, xvars>>
    \/ ToolClose /\ UNCHANGED <<lvars, svars, bvars, cvars, fvars>>
SpecClose == CloseInit /\ [][CloseNext]_vars

\* --------------------------------------------------- properties of the service
OpenPools == {i \in 1..Len(pools_made) : pools_made[i].open}
ConnectHasRaised(p) == raised[p] # NoError
MadeBy(p) == {i \in 1..Len(pools_made) : pools_made[i].by = p}

\* C4: at most one connection pool has been created and not yet closed.
C4_AtMostOneOpenPool == Cardinality(OpenPools) <= 1

\* C5: connect() is idempotent: once a pool is established no further pool is
\* created, and db_manager.pool stays the first pool (and its url) until shutdown.
C5_PoolEstablishedOnce ==
    /\ Len(pools_made) <= 1
    /\ pool # 0 => pool = 1

\* C6: a connect() call for which every url failed raises the error of the last
\* url of urls_to_try, and leaves no pool behind: it has created none, and
\* db_manager.pool is None unless another connect() call has set it.
C6_RaisesLastCandidateError ==
    \A p \in Procs :
        ConnectHasRaised(p) =>
            /\ raised[p].cand = Len(UrlsToTry(env))
            /\ raised[p].stage \in {"connect", "execute", "close", "create_pool"}
            /\ MadeBy(p) = {}
            /\ pool # 0 => pools_made[pool].by # p
            /\ pools_made = <<>> => pool = 0

C6_Witness ==
    \E p \in Procs :
        /\ ConnectHasRaised(p)
        /\ Len(UrlsToTry(env)) = 3
        /\ raised[p].cand = 3
        /\ pool = 0

\* ------------------------------------------ properties of the candidate sequence
\* The urls a connect() call in progress has tried so far, in order.
TriedBy(p) == SubSeq(UrlsToTry(env), 1, cidx[p])
Loopback == Url("127.0.0.1", "5432")
PublicTarget == Url(env.DB_HOST, DB_PORT)
PrivateTarget == Url(env.CLOUDSQL_PRIVATE_IP, DB_PORT)
ProxySet == TruthyStr(env.CLOUDSQL_CONNECTION_NAME)
PrivateOn == env.USE_PRIVATE_IP /\ TruthyStr(env.CLOUDSQL_PRIVATE_IP)

\* C16: when only the public IP is configured (no connection name, private IP
\* off or absent), connect() tries one candidate, the public IP, and no second one.
C16_PublicOnlySingleCandidate ==
    (~ProxySet /\ ~PrivateOn) =>
        \A p \in Procs :
            /\ Len(TriedBy(p)) <= 1
            /\ \A i \in 1..Len(TriedBy(p)) : TriedBy(p)[i] = PublicTarget

\* C17: when private-IP usage is on and a private IP is present, connect() tries
\* the public IP only after it has tried the private IP.
C17_PrivateBeforePublic ==
    PrivateOn =>
        \A p \in Procs :
            \A i \in 1..Len(TriedBy(p)) :
                TriedBy(p)[i] = PublicTarget =>
                    \E j \in 1..(i - 1) : TriedBy(p)[j] = PrivateTarget

C22_PrivateIpUrlReturned ==
    PrivateOn =>
        \A p \in Procs :
            cidx[p] >= 1 => GetDatabaseUrl(env) = PrivateTarget

\* C23: connect() tries the urls strictly in the order of urls_to_try.  It
\* starts with the first; it goes to url i+1 only in the step in which url i
\* failed; create_pool is awaited only after the test connection of the same url
\* succeeded and its pool is made against that url; and once a pool is made the
\* call contacts no further url.
C23_CandidatesInOrder ==
    [][\A p \in Procs :
         /\ cidx'[p] # cidx[p] =>
               \/ cidx[p] = 0 /\ cidx'[p] = 1
               \/ cidx'[p] = cidx[p] + 1 /\ last_error'[p].cand = cidx[p]
               \/ /\ cidx'[p] = 0
                  /\ \/ cidx[p] = Len(UrlsToTry(env)) /\ raised'[p].cand = cidx[p]
                     \/ MadeBy(p)' # MadeBy(p)
         /\ pc'[p] = "probe" => pc[p] \in {"idle", "probe", "create_pool"}
         /\ (pc'[p] = "create_pool" /\ pc[p] # "create_pool") =>
               (pc[p] = "probe" /\ cidx'[p] = cidx[p])
         /\ MadeBy(p)' # MadeBy(p) =>
               /\ pc[p] = "create_pool"
               /\ pools_made'[Len(pools_made')].url = UrlsToTry(env)[cidx[p]]
               /\ pc'[p] \notin {"probe", "create_pool"}]_vars

C23_Witness ==
    /\ ProxySet /\ PrivateOn
    /\ pc[0] = "done"
    /\ Len(pools_made) = 1
    /\ pools_made[1].by = 0
    /\ pools_made[1].url = PrivateTarget

\* C30: every test connection connect() opens is closed before connect() goes
\* on to the next url, creates the pool, returns or raises.
C30_ProbeConnectionsClosed == ~probe_left_open

\* ------------------------------------------------- properties of the borrowing
Quiescent == \A o \in Reqs : b_pc[o] \in {"idle", "done"}

\* C19: when every insert, query and health operation has completed (returned,
\* raised or cancelled), no connection is borrowed: the pool has as many free
\* connections as before the operations started.
C19_NoConnectionLeftBorrowed == Quiescent => idle_conns = PoolMaxSize

C19_Witness ==
    /\ Quiescent
    /\ idle_conns = PoolMaxSize
    /\ \E o1, o2 \in Reqs :
         /\ b_kind[o1] = "log_status" /\ b_out[o1] = "raised"
         /\ b_kind[o2] = "health_check" /\ b_out[o2] = "cancelled"

\* ---------------------------------------------------- properties of the schema
\* C20: create_tables is idempotent: called again or by concurrent callers, no
\* call raises, no relation exists twice, once a call has returned the table and
\* both indexes exist exactly once, and the stored rows are unchanged.
C20_CreateTablesIdempotent ==
    /\ \A c \in Reqs : ct_out[c] # "raised"
    /\ \A r \in Relations : catalog[r] <= 1
    /\ (\E c \in Reqs : ct_out[c] = "returned") => catalog = AllRelations
    /\ rows \in {<<>>, StoredEarlier}
    /\ catalog = NoRelations => rows = <<>>

\* -------------------------------------------------- properties of the handlers
\* The handler's execution ran connect(): it raised there or made a pool.
AttemptedConnect(p) == raised[p] # NoError \/ MadeBy(p) # {}

\* C11: whatever limit the caller of a query gave (none, zero, negative, above
\* 1000), the limit handed to get_recent_logs lies in 1..1000, and is 100 when
\* the caller gave none.
C11_StoreLimitInRange ==
    \A p \in Reqs :
        (f_req[p].kind = "query_logs" /\ f_store[p].calls > 0) =>
            /\ f_store[p].limit \in 1..1000
            /\ ~f_req[p].has_limit => f_store[p].limit = 100

\* C12: health answers 200 "healthy" in every storage state; database_connected
\* is true exactly when a pool exists and answered the probe, false when there
\* is no pool or the probe failed.
C12_HealthAlwaysAnswers ==
    \A p \in Reqs :
        (f_req[p].kind = "health" /\ pc[p] = "done") =>
            /\ f_result[p].code = 200
            /\ f_result[p].text = "healthy"
            /\ f_result[p].database_connected = (f_store[p].out = "answered")
            /\ f_store[p].out \in {"none", "answered", "failed"}

C12_Witness ==
    \E p \in Reqs :
        /\ f_req[p].kind = "health" /\ pc[p] = "done"
        /\ pool = 0 /\ pools_made = <<>>
        /\ f_result[p].code = 200
        /\ ~f_result[p].database_connected

\* C13: on either server, when connect or create_tables fails at startup the
\* service still starts and serves.
C13_StartupFailureKeepsServing == pc[0] = "failed" => phase \in {"serving", "stopped"}

\* C27: in the HTTP service, a handler runs its store operation only on a pool on
\* which create_tables has returned.
C27_SchemaBeforeStoreOperation ==
    \A p \in Reqs :
        (surface = "http" /\ f_store[p].calls > 0) =>
            /\ f_store[p].pool # 0
            /\ pools_made[f_store[p].pool].tables

\* C14: when the store raises in an insert or query request, the caller gets a
\* failure answer with the reason, and the store was called once for the request.
C14_StoreErrorAnswered ==
    \A p \in Reqs :
        (f_req[p].kind \in {"log_status", "query_logs"} /\ f_store[p].out = "raised") =>
            /\ pc[p] = "done"
            /\ ~f_result[p].ok
            /\ f_result[p].text # ""
            /\ f_result[p].err = StoreError
            /\ surface = "http" => (f_result[p].code = 500 /\ resp[p] = 500)
            /\ f_store[p].calls = 1

C14_Witness ==
    \E p \in Reqs :
        /\ f_req[p].kind = "log_status" /\ f_store[p].out = "raised"
        /\ f_result[p].text = "Failed to log status: "
        /\ f_result[p].err = StoreError
        /\ rows = <<>>

\* C15: an insert request that lacks a required field is rejected with a
\* validation error, and its execution attempted no storage I/O: no test
\* connection, no pool, no create_tables, no insert.
C15_InvalidInsertNoIO ==
    \A p \in Reqs :
        (f_req[p].kind = "log_status" /\ ~f_req[p].complete) =>
            /\ f_result[p] \in {ValidationAnswer, MissingFieldsAnswer}
            /\ f_store[p].calls = 0
            /\ ~AttemptedConnect(p)

\* ---------------------------------------------------- properties of close()
ToolPoolOpen(n) == n \in tool_pools \ tool_closed

====
